---- MODULE Spec2Model ----
(***************************************************************************)
(* Appointment scheduling of the Dern backend: the appointment routes      *)
(* (create, update, cancel, legacy delete), the conflict check             *)
(* checkTechnicianAvailability, and the collaborators that change a        *)
(* technician's availability flag and active flag.                         *)
(*                                                                         *)
(* Dates are JavaScript millisecond timestamps.  A document is a record    *)
(* whose DOMAIN is the set of fields that are set on it; a request body is *)
(* a record whose DOMAIN is the set of fields the request carries.         *)
(***************************************************************************)
EXTENDS Integers, Sequences, FiniteSets, TLC

VARIABLES
    appts,   \* the appointments collection: appts[i] is the document with _id i
    techs,   \* the users with role technician: [isActive, availability]
    now,     \* the wall clock, in ms
    reqs     \* the requests in flight, each at one of its awaits

vars == <<appts, techs, now, reqs>>

----------------------------------------------------------------------------
(* Bounds of the model *)

MaxAppts == 2

\* the number of requests in flight at once
MaxReqs == 2

----------------------------------------------------------------------------
(* Time *)

MinuteMs == 1000 * 60
DayMs == 24 * 60 * 60 * 1000

\* Math.floor(num / den) for den > 0
MathFloor(num, den) == num \div den

\* Math.round(num / den) for den > 0: the nearest integer, halves upwards
MathRound(num, den) == (2 * num + den) \div (2 * den)

\* instants at which appointments start and end
A0 == 2 * DayMs
A1 == A0 + 20 * MinuteMs
A2 == A1 + 20 * MinuteMs + 30000
ApptInstants == {A0, A1, A2}

----------------------------------------------------------------------------
(* Users *)

TechIds == {"t1", "t2"}
CustomerIds == {"c1", "c2"}
AdminIds == {"admin"}
UserIds == TechIds \cup CustomerIds \cup AdminIds

Role(u) ==
    IF u \in AdminIds THEN "admin"
    ELSE IF u \in TechIds THEN "technician"
    ELSE "customer"

Availabilities == {"available", "busy", "offline"}

\* authenticate: the caller is an existing, active user
Authenticated(tk, u) == u \in TechIds => tk[u].isActive

\* the lookup without the isActive condition
FindAnyTechnician(tk, technicianId) ==
    IF technicianId \in TechIds
    THEN {tk[technicianId]}
    ELSE {}

\* User.findOne({ _id, role: "technician", isActive: true })
FindActiveTechnician(tk, technicianId) ==
    IF technicianId \in TechIds /\ tk[technicianId].isActive
    THEN {tk[technicianId]}
    ELSE {}

----------------------------------------------------------------------------
(* Documents *)

Statuses == {"scheduled", "in-progress", "completed", "canceled", "no-show"}

NoId == 0

Has(r, f) == f \in DOMAIN r

\* the fields of r named in fs
Pick(r, fs) == [f \in (DOMAIN r \cap fs) |-> r[f]]

Ids(store) == 1..Len(store)

----------------------------------------------------------------------------
(* The conflict check *)

\* the query with $nin: ["canceled"] only
ConflictQueryMatchesCompleted(doc, id, technicianId, startTime, endTime, excludeAppointmentId) ==
    /\ doc.technician = technicianId
    /\ doc.status \notin {"canceled"}
    /\ doc.startTime < endTime
    /\ doc.endTime > startTime
    /\ (excludeAppointmentId # NoId => id # excludeAppointmentId)

\* the query with $lte and $gte on the times
ConflictQueryMatchesTouching(doc, id, technicianId, startTime, endTime, excludeAppointmentId) ==
    /\ doc.technician = technicianId
    /\ doc.status \notin {"canceled", "completed"}
    /\ doc.startTime <= endTime
    /\ doc.endTime >= startTime
    /\ (excludeAppointmentId # NoId => id # excludeAppointmentId)

\* does doc, stored under id, match conflictQuery
ConflictQueryMatches(doc, id, technicianId, startTime, endTime, excludeAppointmentId) ==
    /\ doc.technician = technicianId
    /\ doc.status \notin {"canceled", "completed"}
    /\ doc.startTime < endTime
    /\ doc.endTime > startTime
    /\ (excludeAppointmentId # NoId => id # excludeAppointmentId)

\* the find without the _id: { $ne } clause
FindConflictsIncludingSelf(store, technicianId, startTime, endTime, excludeAppointmentId) ==
    SelectSeq([i \in Ids(store) |-> i],
              LAMBDA i: ConflictQueryMatches(store[i], i, technicianId,
                                             startTime, endTime, NoId))

\* Appointment.find(conflictQuery): the ids of the matching documents, in
\* the order of the collection
FindConflicts(store, technicianId, startTime, endTime, excludeAppointmentId) ==
    SelectSeq([i \in Ids(store) |-> i],
              LAMBDA i: ConflictQueryMatches(store[i], i, technicianId,
                                             startTime, endTime, excludeAppointmentId))

\* the check without the conflict query
checkTechnicianAvailabilityNoConflicts(store, tk, technicianId, startTime, endTime, exclude) ==
    LET found == FindActiveTechnician(tk, technicianId)
    IN  IF found = {} THEN "technicianNotFound"
        ELSE IF \E technician \in found : technician.availability # "available"
             THEN "technicianUnavailable"
        ELSE "ok"

\* the outcome of checkTechnicianAvailability: "ok" when it returns the
\* technician, otherwise the error it throws
checkTechnicianAvailability(store, tk, technicianId, startTime, endTime, excludeAppointmentId) ==
    LET found == FindActiveTechnician(tk, technicianId)
        conflicts == FindConflicts(store, technicianId, startTime, endTime, excludeAppointmentId)
    IN  IF found = {} THEN "technicianNotFound"
        ELSE IF \E technician \in found : technician.availability # "available"
             THEN "technicianUnavailable"
        ELSE IF Len(conflicts) > 0 THEN "conflict"
        ELSE "ok"

----------------------------------------------------------------------------
(* Validation *)

MinEstimatedDuration == 15
MaxEstimatedDuration == 480

\* createAppointmentSchema
createAppointmentSchema(body, clock) ==
    /\ {"technicianId", "startTime", "endTime"} \subseteq DOMAIN body
    /\ DOMAIN body \subseteq {"technicianId", "startTime", "endTime", "notes", "estimatedDuration"}
    /\ body.startTime >= clock
    /\ body.endTime > body.startTime
    /\ Has(body, "estimatedDuration") =>
          /\ body.estimatedDuration >= MinEstimatedDuration
          /\ body.estimatedDuration <= MaxEstimatedDuration

allowedUpdates ==
    {"startTime", "endTime", "notes", "serviceType", "priority", "status",
     "estimatedDuration", "actualDuration", "cost", "location",
     "cancellationReason", "completionNotes", "rating", "feedback"}

\* the schema with unknown keys allowed
updateAppointmentSchemaAllowUnknown(body) ==
    /\ Has(body, "status") => body.status \in Statuses
    /\ Has(body, "estimatedDuration") =>
          /\ body.estimatedDuration >= MinEstimatedDuration
          /\ body.estimatedDuration <= MaxEstimatedDuration
    /\ Has(body, "actualDuration") => body.actualDuration >= 0
    /\ ~ (/\ Has(body, "startTime")
          /\ Has(body, "endTime")
          /\ body.endTime <= body.startTime)

\* updateAppointmentSchema, with its custom rule on the two times
updateAppointmentSchema(body) ==
    /\ DOMAIN body \subseteq allowedUpdates
    /\ Has(body, "status") => body.status \in Statuses
    /\ Has(body, "estimatedDuration") =>
          /\ body.estimatedDuration >= MinEstimatedDuration
          /\ body.estimatedDuration <= MaxEstimatedDuration
    /\ Has(body, "actualDuration") => body.actualDuration >= 0
    /\ ~ (/\ Has(body, "startTime")
          /\ Has(body, "endTime")
          /\ body.endTime <= body.startTime)

\* the validators without the one of endTime
appointmentSchemaValidNoEndTime(doc) ==
    /\ doc.status \in Statuses
    /\ Has(doc, "estimatedDuration") =>
          /\ doc.estimatedDuration >= MinEstimatedDuration
          /\ doc.estimatedDuration <= MaxEstimatedDuration

\* the validators of appointmentSchema that a save runs
appointmentSchemaValid(doc) ==
    /\ doc.endTime > doc.startTime
    /\ doc.status \in Statuses
    /\ Has(doc, "estimatedDuration") =>
          /\ doc.estimatedDuration >= MinEstimatedDuration
          /\ doc.estimatedDuration <= MaxEstimatedDuration

----------------------------------------------------------------------------
(* The handlers, as functions of the store, the technicians, the clock and *)
(* the request.  Each yields the response and the store it leaves.         *)

Response(result, store) == [result |-> result, store |-> store]

\* the permission check that lets every customer pass
hasAccessAnyCustomer(doc, actor) ==
    \/ Role(actor) = "admin"
    \/ Role(actor) = "customer"
    \/ doc.technician = actor

\* the permission check of the read, update, cancel and delete routes
hasAccess(doc, actor) ==
    \/ Role(actor) = "admin"
    \/ doc.client = actor
    \/ doc.technician = actor

\* router.get("/:appointmentId")
GetAppointment(store, actor, appointmentId) ==
    IF appointmentId \notin Ids(store) THEN [result |-> "notFound"]
    ELSE IF ~ hasAccess(store[appointmentId], actor) THEN [result |-> "accessDenied"]
    ELSE [result |-> "ok", appointment |-> store[appointmentId]]

\* router.post("/")
PostAppointment(store, tk, clock, actor, body) ==
    IF Role(actor) \notin {"customer", "admin"} THEN Response("forbidden", store)
    ELSE IF ~ createAppointmentSchema(body, clock) THEN Response("validationError", store)
    ELSE
    LET check == checkTechnicianAvailability(store, tk, body.technicianId,
                                             body.startTime, body.endTime, NoId)
        duration == IF Has(body, "estimatedDuration") /\ body.estimatedDuration # 0
                    THEN body.estimatedDuration
                    ELSE MathRound(body.endTime - body.startTime, MinuteMs)
        appointment == Pick(body, {"notes"}) @@
                       [client |-> actor,
                        technician |-> body.technicianId,
                        startTime |-> body.startTime,
                        endTime |-> body.endTime,
                        status |-> "scheduled",
                        estimatedDuration |-> duration]
    IN  IF check # "ok" THEN Response(check, store)
        ELSE IF ~ appointmentSchemaValid(appointment) THEN Response("saveError", store)
        ELSE Response("created", Append(store, appointment))

\* the guard on completed appointments only
isLockedCompleted(appointment, actor) ==
    Role(actor) # "admin" /\ appointment.status \in {"completed"}

\* the guard on completed or canceled appointments, admins excepted
isLocked(appointment, actor) ==
    Role(actor) # "admin" /\ appointment.status \in {"completed", "canceled"}

\* the update route writing the document although its validation fails
PutAppointmentSavingUnvalidated(store, tk, clock, actor, appointmentId, body) ==
    IF ~ updateAppointmentSchema(body) THEN Response("validationError", store)
    ELSE IF appointmentId \notin Ids(store) THEN Response("notFound", store)
    ELSE
    LET appointment == store[appointmentId]
        timed == Has(body, "startTime") \/ Has(body, "endTime")
        newStartTime == IF Has(body, "startTime") THEN body.startTime ELSE appointment.startTime
        newEndTime == IF Has(body, "endTime") THEN body.endTime ELSE appointment.endTime
        check == IF timed
                 THEN checkTechnicianAvailability(store, tk, appointment.technician,
                                                  newStartTime, newEndTime, appointmentId)
                 ELSE "ok"
        assigned == Pick(body, allowedUpdates) @@ appointment
        updated == IF /\ Has(body, "status")
                      /\ body.status = "completed"
                      /\ ~ (Has(body, "actualDuration") /\ body.actualDuration # 0)
                   THEN [actualDuration |->
                            MathRound(assigned.endTime - assigned.startTime, MinuteMs)]
                        @@ assigned
                   ELSE assigned
    IN  IF ~ hasAccess(appointment, actor) THEN Response("accessDenied", store)
        ELSE IF isLocked(appointment, actor) THEN Response("immutable", store)
        ELSE IF timed /\ Role(actor) # "admin" /\ newStartTime < clock
             THEN Response("startInPast", store)
        ELSE IF check # "ok" THEN Response(check, store)
        ELSE Response(IF appointmentSchemaValid(updated) THEN "updated" ELSE "saveError",
                      [store EXCEPT ![appointmentId] = updated])

\* router.put("/:appointmentId")
PutAppointment(store, tk, clock, actor, appointmentId, body) ==
    IF ~ updateAppointmentSchema(body) THEN Response("validationError", store)
    ELSE IF appointmentId \notin Ids(store) THEN Response("notFound", store)
    ELSE
    LET appointment == store[appointmentId]
        timed == Has(body, "startTime") \/ Has(body, "endTime")
        newStartTime == IF Has(body, "startTime") THEN body.startTime ELSE appointment.startTime
        newEndTime == IF Has(body, "endTime") THEN body.endTime ELSE appointment.endTime
        check == IF timed
                 THEN checkTechnicianAvailability(store, tk, appointment.technician,
                                                  newStartTime, newEndTime, appointmentId)
                 ELSE "ok"
        assigned == Pick(body, allowedUpdates) @@ appointment
        updated == IF /\ Has(body, "status")
                      /\ body.status = "completed"
                      /\ ~ (Has(body, "actualDuration") /\ body.actualDuration # 0)
                   THEN [actualDuration |->
                            MathRound(assigned.endTime - assigned.startTime, MinuteMs)]
                        @@ assigned
                   ELSE assigned
    IN  IF ~ hasAccess(appointment, actor) THEN Response("accessDenied", store)
        ELSE IF isLocked(appointment, actor) THEN Response("immutable", store)
        ELSE IF timed /\ Role(actor) # "admin" /\ newStartTime < clock
             THEN Response("startInPast", store)
        ELSE IF check # "ok" THEN Response(check, store)
        ELSE IF ~ appointmentSchemaValid(updated) THEN Response("saveError", store)
        ELSE Response("updated", [store EXCEPT ![appointmentId] = updated])

\* the check against another spelling of the status
isAlreadyCancelled(appointment) == appointment.status = "cancelled"

\* the check of the two cancel routes that the appointment is canceled already
isAlreadyCanceled(appointment) == appointment.status = "canceled"

\* the policy with the boundary instant refused
noticeTooShortAtBoundary(appointment, clock, actor) ==
    LET twentyFourHoursBefore == appointment.startTime - DayMs
    IN  Role(actor) # "admin" /\ clock >= twentyFourHoursBefore

\* the cancellation policy: less than 24 hours of notice, admins excepted
noticeTooShort(appointment, clock, actor) ==
    LET twentyFourHoursBefore == appointment.startTime - DayMs
    IN  Role(actor) # "admin" /\ clock > twentyFourHoursBefore

\* the paths of appointmentSchema: an update through the model writes these
\* and drops every other field of the update document
appointmentSchemaPaths ==
    {"client", "technician", "startTime", "endTime", "status", "notes",
     "serviceType", "priority", "estimatedDuration", "actualDuration", "cost",
     "location", "cancellationReason", "completionNotes", "rating", "feedback"}

\* a cancel that also writes the reason into the notes
CancelWithNotes(store, clock, actor, appointmentId, cancellationReason) ==
    IF appointmentId \notin Ids(store) THEN Response("notFound", store)
    ELSE
    LET appointment == store[appointmentId]
        update == [status |-> "canceled",
                   cancellationReason |-> cancellationReason,
                   notes |-> cancellationReason,
                   canceledAt |-> clock,
                   canceledBy |-> actor]
        canceled == Pick(update, appointmentSchemaPaths) @@ appointment
    IN  IF ~ hasAccess(appointment, actor) THEN Response("accessDenied", store)
        ELSE IF isAlreadyCanceled(appointment) THEN Response("alreadyCanceled", store)
        ELSE IF noticeTooShort(appointment, clock, actor) THEN Response("windowExpired", store)
        ELSE Response("canceled", [store EXCEPT ![appointmentId] = canceled])

\* a cancel that removes the record from the collection
CancelWithRemoval(store, clock, actor, appointmentId, cancellationReason) ==
    IF appointmentId \notin Ids(store) THEN Response("notFound", store)
    ELSE
    LET appointment == store[appointmentId]
    IN  IF ~ hasAccess(appointment, actor) THEN Response("accessDenied", store)
        ELSE IF isAlreadyCanceled(appointment) THEN Response("alreadyCanceled", store)
        ELSE IF noticeTooShort(appointment, clock, actor) THEN Response("windowExpired", store)
        ELSE Response("canceled", SubSeq(store, 1, appointmentId - 1)
                                  \o SubSeq(store, appointmentId + 1, Len(store)))

\* the part the two cancel routes share: load, permission, already canceled,
\* 24 hours notice, then findByIdAndUpdate with the fields of the schema
CancelWith(store, clock, actor, appointmentId, cancellationReason) ==
    IF appointmentId \notin Ids(store) THEN Response("notFound", store)
    ELSE
    LET appointment == store[appointmentId]
        update == [status |-> "canceled",
                   cancellationReason |-> cancellationReason,
                   canceledAt |-> clock,
                   canceledBy |-> actor]
        canceled == Pick(update, appointmentSchemaPaths) @@ appointment
    IN  IF ~ hasAccess(appointment, actor) THEN Response("accessDenied", store)
        ELSE IF isAlreadyCanceled(appointment) THEN Response("alreadyCanceled", store)
        ELSE IF noticeTooShort(appointment, clock, actor) THEN Response("windowExpired", store)
        ELSE Response("canceled", [store EXCEPT ![appointmentId] = canceled])

\* router.patch("/:appointmentId/cancel")
PatchCancel(store, clock, actor, appointmentId, body) ==
    IF ~ (DOMAIN body \subseteq {"cancellationReason"}) THEN Response("validationError", store)
    ELSE CancelWith(store, clock, actor, appointmentId,
                    IF Has(body, "cancellationReason") /\ body.cancellationReason # ""
                    THEN body.cancellationReason
                    ELSE "No reason provided")

\* router.delete("/:appointmentId")
DeleteAppointment(store, clock, actor, appointmentId) ==
    CancelWith(store, clock, actor, appointmentId, "Canceled by user")

----------------------------------------------------------------------------
(* The availability of a technician on a day: router.get of                *)
(* "/:technicianId/availability" in the technician routes                  *)

HourMs == 60 * MinuteMs

\* Date.prototype.getUTCHours and getUTCMinutes
getUTCHours(t) == (t % DayMs) \div HourMs
getUTCMinutes(t) == (t % HourMs) \div MinuteMs

\* requestedDate with setUTCHours(0, 0, 0, 0) and setUTCHours(23, 59, 59, 999)
startOfDay(requestedDate) == requestedDate - (requestedDate % DayMs)
endOfDay(requestedDate) ==
    startOfDay(requestedDate) + 23 * HourMs + 59 * MinuteMs + 59 * 1000 + 999

workingHours == <<"09:00", "10:00", "11:00", "12:00", "13:00", "14:00", "15:00", "16:00">>

\* Array.prototype.includes
includes(seq, x) == \E k \in 1..Len(seq) : seq[k] = x

\* hour.toString().padStart(2, "0") + ":00", for an hour of the day
timeSlot(hour) ==
    LET digit == <<"0", "1", "2", "3", "4", "5", "6", "7", "8", "9">>
        toString == IF hour < 10
                    THEN digit[hour + 1]
                    ELSE digit[(hour \div 10) + 1] \o digit[(hour % 10) + 1]
        padStart == IF hour < 10 THEN "0" \o toString ELSE toString
    IN  padStart \o ":00"

\* the filter without the clause for an appointment over the whole day
DayQueryMatchesTwoClauses(doc, technicianId, requestedDate) ==
    /\ doc.technician = technicianId
    /\ \/ doc.startTime >= startOfDay(requestedDate) /\ doc.startTime <= endOfDay(requestedDate)
       \/ doc.endTime >= startOfDay(requestedDate) /\ doc.endTime <= endOfDay(requestedDate)
    /\ doc.status \notin {"canceled", "completed"}

\* the filter of Appointment.find: the technician, the three clauses of $or
\* on the day, and the status
DayQueryMatches(doc, technicianId, requestedDate) ==
    /\ doc.technician = technicianId
    /\ \/ doc.startTime >= startOfDay(requestedDate) /\ doc.startTime <= endOfDay(requestedDate)
       \/ doc.endTime >= startOfDay(requestedDate) /\ doc.endTime <= endOfDay(requestedDate)
       \/ doc.startTime <= startOfDay(requestedDate) /\ doc.endTime >= endOfDay(requestedDate)
    /\ doc.status \notin {"canceled", "completed"}

\* the loop that ends on the end hour whatever the minutes are
lastHourInclusive(endTime) == getUTCHours(endTime)

\* the last hour of the loop over the hours of an appointment
lastHour(endTime) ==
    IF getUTCMinutes(endTime) > 0 THEN getUTCHours(endTime) ELSE getUTCHours(endTime) - 1

\* the slots marked without the test on workingHours
markedSlotsUnfiltered(appt) ==
    {timeSlot(hour) : hour \in getUTCHours(appt.startTime)..lastHour(appt.endTime)}

\* the slots one appointment adds to bookedSlots
markedSlots(appt) ==
    {timeSlot(hour) : hour \in {h \in getUTCHours(appt.startTime)..lastHour(appt.endTime) :
                                   includes(workingHours, timeSlot(h))}}

\* router.get("/:technicianId/availability")
GetAvailability(store, tk, technicianId, requestedDate) ==
    LET technician == FindActiveTechnician(tk, technicianId)
        appointments == {i \in Ids(store) : DayQueryMatches(store[i], technicianId, requestedDate)}
        bookedSlots == UNION {markedSlots(store[i]) : i \in appointments}
        availableSlots == SelectSeq(workingHours, LAMBDA slot : slot \notin bookedSlots)
    IN  IF technician = {}
        THEN [result |-> "technicianNotFound"]
        ELSE IF \E u \in technician : u.availability # "available"
        THEN [result |-> "technicianUnavailable"]
        ELSE [result |-> "ok", bookedSlots |-> bookedSlots, availableSlots |-> availableSlots]

----------------------------------------------------------------------------
(* Actions: each serves one request from start to end *)

\* the response r is sent and the store it leaves is the collection
Served(r, max) ==
    /\ Len(r.store) <= max
    /\ appts' = r.store
    /\ UNCHANGED <<techs, now, reqs>>

Create(actor, body, max) ==
    /\ Authenticated(techs, actor)
    /\ Served(PostAppointment(appts, techs, now, actor, body), max)

Update(actor, appointmentId, body) ==
    /\ Authenticated(techs, actor)
    /\ Served(PutAppointment(appts, techs, now, actor, appointmentId, body), Len(appts))

Cancel(actor, appointmentId, body) ==
    /\ Authenticated(techs, actor)
    /\ Served(PatchCancel(appts, now, actor, appointmentId, body), Len(appts))

Delete(actor, appointmentId) ==
    /\ Authenticated(techs, actor)
    /\ Served(DeleteAppointment(appts, now, actor, appointmentId), Len(appts))

\* router.get("/:appointmentId"): the response is what slot k of the
\* requests holds afterwards
Read(k, actor, appointmentId) ==
    /\ Authenticated(techs, actor)
    /\ reqs' = [reqs EXCEPT ![k] =
                   [pc |-> "read", actor |-> actor, id |-> appointmentId]
                   @@ GetAppointment(appts, actor, appointmentId)]
    /\ UNCHANGED <<appts, techs, now>>

\* router.get("/:technicianId/availability") of the technician routes: the
\* response is what slot k of the requests holds afterwards
Availability(k, actor, technicianId, requestedDate) ==
    /\ Authenticated(techs, actor)
    /\ reqs' = [reqs EXCEPT ![k] =
                   [pc |-> "availability"] @@ GetAvailability(appts, techs, technicianId, requestedDate)]
    /\ UNCHANGED <<appts, techs, now>>

\* router.patch("/availability") of the technician routes
UpdateAvailability(actor, availability) ==
    /\ actor \in TechIds
    /\ Authenticated(techs, actor)
    /\ techs' = [techs EXCEPT ![actor].availability = availability]
    /\ UNCHANGED <<appts, now, reqs>>

\* router.patch("/users/:id/status") of the admin routes
UpdateUserStatus(id, isActive) ==
    /\ id \in TechIds
    /\ techs' = [techs EXCEPT ![id].isActive = isActive]
    /\ UNCHANGED <<appts, now, reqs>>

\* time passes: the clock moves to its next instant
Tick(clock) ==
    /\ \E t \in clock :
          /\ t > now
          /\ \A u \in clock : u > now => t <= u
          /\ now' = t
    /\ UNCHANGED <<appts, techs, reqs>>

\* no request is being served in slot k
Idle == [pc |-> "idle"]

Init ==
    /\ appts = <<>>
    /\ techs = [t \in TechIds |-> [isActive |-> TRUE, availability |-> "available"]]
    /\ now = A0 - DayMs
    /\ reqs = [k \in 1..MaxReqs |-> Idle]

----------------------------------------------------------------------------
(* Scheduling: creates and updates of times and status by customers, for   *)
(* two technicians, one of whom changes availability and is (de)activated, *)
(* while the clock stands at its first instant.                            *)

Intervals == {[startTime |-> A0, endTime |-> A1],
              [startTime |-> A1, endTime |-> A2],
              [startTime |-> A0, endTime |-> A2]}

SchedActors == {"c1", "c2"}

SchedStatuses == {"scheduled", "in-progress", "completed", "canceled"}

SchedCreateBodies ==
    {[technicianId |-> t, estimatedDuration |-> 30] @@ i :
        t \in TechIds \cup {"c1"},
        i \in Intervals \cup {[startTime |-> A1, endTime |-> A0]}}

SchedUpdateBodies ==
    {[startTime |-> s] : s \in ApptInstants}
    \cup {[endTime |-> e] : e \in ApptInstants}
    \cup Intervals
    \cup {[status |-> st] : st \in SchedStatuses}

Next ==
    \/ \E actor \in {"c1", "t1"}, body \in SchedCreateBodies : Create(actor, body, MaxAppts)
    \/ \E actor \in SchedActors, id \in 1..MaxAppts, body \in SchedUpdateBodies :
          Update(actor, id, body)
    \/ \E a \in Availabilities : UpdateAvailability("t1", a)
    \/ \E b \in BOOLEAN : UpdateUserStatus("t1", b)

Spec == Init /\ [][Next]_vars

\* the same, with the administrator's updates
NextAdmin ==
    \/ Next
    \/ \E id \in 1..MaxAppts, body \in SchedUpdateBodies : Update("admin", id, body)

SpecAdmin == Init /\ [][NextAdmin]_vars

----------------------------------------------------------------------------
(* Lifecycle: one technician's appointments are created, updated in status *)
(* and notes, and canceled through both routes, by the client, the         *)
(* technician, an outsider and the administrator, while time passes.       *)

MaxLifeAppts == 1

LifeActors == {"admin", "c1", "c2", "t1"}

LifeCreateBodies ==
    {[technicianId |-> "t1", startTime |-> A0, endTime |-> A1],
     [technicianId |-> "t1", startTime |-> A1, endTime |-> A2]}

LifeUpdateBodies ==
    {[status |-> st] : st \in Statuses} \cup {[notes |-> "n"]}

LifeCancelBodies == {<<>>, [cancellationReason |-> "r"]}

LifeClock == {A0 - DayMs, A0 - DayMs + 1, A0 + 1}

NextLifecycle ==
    \/ \E body \in LifeCreateBodies : Create("c1", body, MaxLifeAppts)
    \/ \E actor \in LifeActors, id \in 1..MaxLifeAppts, body \in LifeUpdateBodies :
          Update(actor, id, body)
    \/ \E actor \in LifeActors, id \in 1..MaxLifeAppts, body \in LifeCancelBodies :
          Cancel(actor, id, body)
    \/ \E actor \in LifeActors, id \in 1..MaxLifeAppts : Delete(actor, id)
    \/ Tick(LifeClock)

SpecLifecycle == Init /\ [][NextLifecycle]_vars

----------------------------------------------------------------------------
(* Interleaving: the create and update handlers run concurrently, each     *)
(* advancing from one await to the next; the code between two awaits runs  *)
(* without interruption, and each database call is atomic.                 *)

\* the response is sent: the slot is free again
Respond(k) == reqs' = [reqs EXCEPT ![k] = Idle]

\* router.post("/") up to the first await, User.findOne being issued
BeginCreate(k, actor, body) ==
    /\ reqs[k] = Idle
    /\ Authenticated(techs, actor)
    /\ Role(actor) \in {"customer", "admin"}
    /\ createAppointmentSchema(body, now)
    /\ reqs' = [reqs EXCEPT ![k] =
                  [pc |-> "findTechnician", kind |-> "create", actor |-> actor,
                   body |-> body, technician |-> body.technicianId,
                   startTime |-> body.startTime, endTime |-> body.endTime,
                   exclude |-> NoId]]
    /\ UNCHANGED <<appts, techs, now>>

\* router.put("/:appointmentId"): Appointment.findById and the code up to
\* the next await, which is User.findOne when a time is carried and the save
\* otherwise
BeginUpdate(k, actor, appointmentId, body) ==
    /\ reqs[k] = Idle
    /\ Authenticated(techs, actor)
    /\ updateAppointmentSchema(body)
    /\ appointmentId \in Ids(appts)
    /\ LET appointment == appts[appointmentId]
           timed == Has(body, "startTime") \/ Has(body, "endTime")
           newStartTime == IF Has(body, "startTime") THEN body.startTime ELSE appointment.startTime
           newEndTime == IF Has(body, "endTime") THEN body.endTime ELSE appointment.endTime
       IN  /\ hasAccess(appointment, actor)
           /\ ~ isLocked(appointment, actor)
           /\ ~ (timed /\ Role(actor) # "admin" /\ newStartTime < now)
           /\ reqs' = [reqs EXCEPT ![k] =
                         [pc |-> IF timed THEN "findTechnician" ELSE "save",
                          kind |-> "update", actor |-> actor, body |-> body,
                          id |-> appointmentId, loaded |-> appointment,
                          technician |-> appointment.technician,
                          startTime |-> newStartTime, endTime |-> newEndTime,
                          exclude |-> appointmentId]]
    /\ UNCHANGED <<appts, techs, now>>

\* checkTechnicianAvailability: User.findOne and the two tests on its result
FindTechnician(k) ==
    /\ reqs[k].pc = "findTechnician"
    /\ LET found == FindActiveTechnician(techs, reqs[k].technician)
       IN  IF found = {} \/ \E technician \in found : technician.availability # "available"
           THEN Respond(k)
           ELSE reqs' = [reqs EXCEPT ![k].pc = "findConflicts"]
    /\ UNCHANGED <<appts, techs, now>>

\* the conflict query that sets the technician busy when it finds a conflict
FindConflictsStepMarkingBusy(k) ==
    /\ reqs[k].pc = "findConflicts"
    /\ LET conflicts == FindConflicts(appts, reqs[k].technician, reqs[k].startTime,
                                      reqs[k].endTime, reqs[k].exclude)
       IN  IF Len(conflicts) > 0
           THEN /\ Respond(k)
                /\ techs' = [techs EXCEPT ![reqs[k].technician].availability = "busy"]
           ELSE /\ reqs' = [reqs EXCEPT ![k].pc = "save"]
                /\ techs' = techs
    /\ UNCHANGED <<appts, now>>

\* checkTechnicianAvailability: Appointment.find(conflictQuery) and the test
\* on its result
FindConflictsStep(k) ==
    /\ reqs[k].pc = "findConflicts"
    /\ LET conflicts == FindConflicts(appts, reqs[k].technician, reqs[k].startTime,
                                      reqs[k].endTime, reqs[k].exclude)
       IN  IF Len(conflicts) > 0
           THEN Respond(k)
           ELSE reqs' = [reqs EXCEPT ![k].pc = "save"]
    /\ UNCHANGED <<appts, techs, now>>

\* appointment.save() of the create: the new document is validated and inserted
SaveCreate(k) ==
    /\ reqs[k].pc = "save"
    /\ reqs[k].kind = "create"
    /\ LET body == reqs[k].body
           duration == IF Has(body, "estimatedDuration") /\ body.estimatedDuration # 0
                       THEN body.estimatedDuration
                       ELSE MathRound(body.endTime - body.startTime, MinuteMs)
           appointment == Pick(body, {"notes"}) @@
                          [client |-> reqs[k].actor,
                           technician |-> body.technicianId,
                           startTime |-> body.startTime,
                           endTime |-> body.endTime,
                           status |-> "scheduled",
                           estimatedDuration |-> duration]
       IN  /\ Len(appts) < MaxAppts
           /\ appts' = IF appointmentSchemaValid(appointment)
                       THEN Append(appts, appointment)
                       ELSE appts
    /\ Respond(k)
    /\ UNCHANGED <<techs, now>>

\* appointment.save() of the update: the loaded document with the fields of
\* the body assigned is validated, and the paths the assignment modified are
\* set on the stored document
SaveUpdate(k) ==
    /\ reqs[k].pc = "save"
    /\ reqs[k].kind = "update"
    /\ LET body == reqs[k].body
           loaded == reqs[k].loaded
           assigned == Pick(body, allowedUpdates) @@ loaded
           updated == IF /\ Has(body, "status")
                         /\ body.status = "completed"
                         /\ ~ (Has(body, "actualDuration") /\ body.actualDuration # 0)
                      THEN [actualDuration |->
                               MathRound(assigned.endTime - assigned.startTime, MinuteMs)]
                           @@ assigned
                      ELSE assigned
           modified == {f \in DOMAIN updated : ~ Has(loaded, f) \/ loaded[f] # updated[f]}
       IN  appts' = IF appointmentSchemaValid(updated)
                    THEN [appts EXCEPT ![reqs[k].id] = Pick(updated, modified) @@ @]
                    ELSE appts
    /\ Respond(k)
    /\ UNCHANGED <<techs, now>>

\* the two cancel routes up to findByIdAndUpdate: Appointment.findById and
\* the tests on the loaded appointment; a request that fails one of them is
\* answered at once
BeginCancelWith(k, actor, appointmentId, cancellationReason) ==
    /\ reqs[k].pc \in {"idle", "responded"}
    /\ Authenticated(techs, actor)
    /\ LET refused == CancelWith(appts, now, actor, appointmentId, cancellationReason).result
       IN  reqs' = [reqs EXCEPT ![k] =
                       IF refused # "canceled"
                       THEN [pc |-> "responded", result |-> refused, id |-> appointmentId]
                       ELSE [pc |-> "findByIdAndUpdate", kind |-> "cancel", actor |-> actor,
                             id |-> appointmentId,
                             cancellationReason |-> cancellationReason]]
    /\ UNCHANGED <<appts, techs, now>>

\* router.patch("/:appointmentId/cancel") up to findByIdAndUpdate
BeginPatchCancel(k, actor, appointmentId, body) ==
    /\ DOMAIN body \subseteq {"cancellationReason"}
    /\ BeginCancelWith(k, actor, appointmentId,
                       IF Has(body, "cancellationReason") /\ body.cancellationReason # ""
                       THEN body.cancellationReason
                       ELSE "No reason provided")

\* router.delete("/:appointmentId") up to findByIdAndUpdate
BeginDelete(k, actor, appointmentId) ==
    BeginCancelWith(k, actor, appointmentId, "Canceled by user")

\* Appointment.findByIdAndUpdate of the two cancel routes and the response:
\* the update is applied to the document of that id as it is stored now
WriteCancel(k) ==
    /\ reqs[k].pc = "findByIdAndUpdate"
    /\ LET update == [status |-> "canceled",
                      cancellationReason |-> reqs[k].cancellationReason,
                      canceledAt |-> now,
                      canceledBy |-> reqs[k].actor]
       IN  appts' = [appts EXCEPT ![reqs[k].id] = Pick(update, appointmentSchemaPaths) @@ @]
    /\ reqs' = [reqs EXCEPT ![k] =
                    [pc |-> "responded", result |-> "canceled", id |-> reqs[k].id,
                     actor |-> reqs[k].actor,
                     cancellationReason |-> reqs[k].cancellationReason]]
    /\ UNCHANGED <<techs, now>>

RaceCreateBodies ==
    {[technicianId |-> "t1", estimatedDuration |-> 30] @@ i : i \in Intervals}

RaceUpdateBodies ==
    {[startTime |-> A0], [endTime |-> A2], [status |-> "canceled"]}

NextRace ==
    \/ \E k \in 1..MaxReqs, body \in RaceCreateBodies : BeginCreate(k, "c1", body)
    \/ \E k \in 1..MaxReqs, id \in 1..MaxAppts, body \in RaceUpdateBodies :
          BeginUpdate(k, "c1", id, body)
    \/ \E k \in 1..MaxReqs : FindTechnician(k)
    \/ \E k \in 1..MaxReqs : FindConflictsStep(k)
    \/ \E k \in 1..MaxReqs : SaveCreate(k)
    \/ \E k \in 1..MaxReqs : SaveUpdate(k)
    \/ \E a \in Availabilities : UpdateAvailability("t1", a)

SpecRace == Init /\ [][NextRace]_vars

----------------------------------------------------------------------------
(* Slots: appointments within a day, across midnight and over a whole day  *)
(* are created for two technicians and canceled or completed, and the      *)
(* availability of the technicians is read for two days.                   *)

MaxSlotAppts == 2

\* the instant of hour h and minute m of the day of A0, and of the days
\* before and after it
At(day, h, m) == A0 + day * DayMs + h * HourMs + m * MinuteMs

SlotIntervals ==
    {[startTime |-> At(0, 9, 0), endTime |-> At(0, 11, 30)],
     [startTime |-> At(0, 9, 0), endTime |-> At(0, 11, 0)],
     [startTime |-> At(0, 15, 0), endTime |-> At(0, 17, 30)],
     [startTime |-> At(0, 22, 0), endTime |-> At(1, 10, 0)],
     [startTime |-> At(-1, 20, 0), endTime |-> At(1, 5, 0)]}

SlotCreateBodies ==
    {[technicianId |-> "t1", estimatedDuration |-> 60] @@ i : i \in SlotIntervals}
    \cup {[technicianId |-> "t2", estimatedDuration |-> 60,
           startTime |-> At(0, 9, 0), endTime |-> At(0, 11, 30)]}

SlotUpdateBodies == {[status |-> "canceled"], [status |-> "completed", actualDuration |-> 60]}

\* the dates asked for: a day given as a date, and one given as an instant
SlotDates == {At(0, 0, 0), At(0, 13, 45), At(1, 0, 0)}

NextSlots ==
    \/ \E body \in SlotCreateBodies : Create("c1", body, MaxSlotAppts)
    \/ \E id \in 1..MaxSlotAppts, body \in SlotUpdateBodies : Update("c1", id, body)
    \/ \E t \in TechIds \cup {"c1"}, d \in SlotDates : Availability(1, "c1", t, d)

SpecSlots == Init /\ [][NextSlots]_vars

----------------------------------------------------------------------------
(* Records: a customer creates appointments with one technician, leaving   *)
(* the duration to be derived, and the customer and the administrator      *)
(* annotate and cancel them through both routes, while time passes.        *)

MaxRecAppts == 2

RecActors == {"admin", "c1"}

RecUpdateBodies == {[notes |-> "n"], [status |-> "in-progress"]}

NextRecords ==
    \/ \E body \in LifeCreateBodies : Create("c1", body, MaxRecAppts)
    \/ \E actor \in RecActors, id \in 1..MaxRecAppts, body \in RecUpdateBodies :
          Update(actor, id, body)
    \/ \E actor \in RecActors, id \in 1..MaxRecAppts, body \in LifeCancelBodies :
          Cancel(actor, id, body)
    \/ \E actor \in RecActors, id \in 1..MaxRecAppts : Delete(actor, id)
    \/ Tick(LifeClock)

SpecRecords == Init /\ [][NextRecords]_vars

----------------------------------------------------------------------------
(* Interleaving of cancels: appointments are created, and cancels through  *)
(* both routes and updates by the client advance from await to await in    *)
(* the slots of the requests.                                              *)

CancelRaceUpdateBodies ==
    {[startTime |-> A0 + 1], [status |-> "in-progress"], [notes |-> "n"]}

NextCancelRace ==
    \/ \E body \in LifeCreateBodies : Create("c1", body, MaxLifeAppts)
    \/ \E k \in 1..MaxReqs, actor \in RecActors, id \in 1..MaxLifeAppts,
          body \in LifeCancelBodies : BeginPatchCancel(k, actor, id, body)
    \/ \E k \in 1..MaxReqs, id \in 1..MaxLifeAppts : BeginDelete(k, "c1", id)
    \/ \E k \in 1..MaxReqs : WriteCancel(k)
    \/ \E k \in 1..MaxReqs, id \in 1..MaxLifeAppts, body \in CancelRaceUpdateBodies :
          BeginUpdate(k, "c1", id, body)
    \/ \E k \in 1..MaxReqs : FindTechnician(k)
    \/ \E k \in 1..MaxReqs : FindConflictsStep(k)
    \/ \E k \in 1..MaxReqs : SaveUpdate(k)

SpecCancelRace == Init /\ [][NextCancelRace]_vars

----------------------------------------------------------------------------
(* Rejections: a customer books one technician whose availability flag     *)
(* changes, appointments are completed and canceled, and time passes, so   *)
(* that requests meet every reason to be refused.                          *)

RejUpdateBodies == {[status |-> "completed"], [notes |-> "n"]}

NextRejections ==
    \/ \E body \in LifeCreateBodies : Create("c1", body, MaxLifeAppts)
    \/ \E actor \in RecActors, id \in 1..MaxLifeAppts, body \in RejUpdateBodies :
          Update(actor, id, body)
    \/ \E id \in 1..MaxLifeAppts, body \in LifeCancelBodies : Cancel("c1", id, body)
    \/ \E id \in 1..MaxLifeAppts : Delete("c1", id)
    \/ \E a \in Availabilities : UpdateAvailability("t1", a)
    \/ Tick(LifeClock)

SpecRejections == Init /\ [][NextRejections]_vars

----------------------------------------------------------------------------
(* Access: the customer c1 books the technician t1, and they, another      *)
(* customer and the administrator read, annotate and cancel the            *)
(* appointments.                                                           *)

NextAccess ==
    \/ \E body \in LifeCreateBodies : Create("c1", body, MaxLifeAppts)
    \/ \E actor \in LifeActors, id \in 1..MaxLifeAppts, body \in RecUpdateBodies :
          Update(actor, id, body)
    \/ \E actor \in LifeActors, id \in 1..MaxLifeAppts, body \in LifeCancelBodies :
          Cancel(actor, id, body)
    \/ \E actor \in LifeActors, id \in 1..MaxLifeAppts : Delete(actor, id)
    \/ \E actor \in LifeActors, id \in 1..MaxLifeAppts : Read(1, actor, id)

SpecAccess == Init /\ [][NextAccess]_vars

----------------------------------------------------------------------------
(* Reads: a create advances from await to await in one slot while the      *)
(* availability of the technicians is read in another, appointments are    *)
(* canceled and the technician changes availability.                       *)

ReadDates == {At(0, 0, 0), At(1, 0, 0)}

NextReads ==
    \/ \E body \in SlotCreateBodies : BeginCreate(1, "c1", body)
    \/ FindTechnician(1)
    \/ FindConflictsStep(1)
    \/ SaveCreate(1)
    \/ \E t \in TechIds \cup {"c1"}, d \in ReadDates : Availability(2, "c1", t, d)
    \/ \E id \in 1..MaxAppts : Update("c1", id, [status |-> "canceled"])
    \/ \E a \in Availabilities : UpdateAvailability("t1", a)

SpecReads == Init /\ [][NextReads]_vars

----------------------------------------------------------------------------
(* Vocabulary of the properties *)

\* an appointment that occupies its technician's time
Active(a) == a.status \notin {"canceled", "completed"}

\* the overlap of two half-open intervals
Overlaps(a, b) == a.startTime < b.endTime /\ b.startTime < a.endTime

\* the technician resolves to an existing, active, available technician
Bookable(t) ==
    /\ t \in TechIds
    /\ techs[t].isActive
    /\ techs[t].availability = "available"

ProbeInstants == ApptInstants \cup {A0 + 1, A2 + MinuteMs}

ProbeIntervals ==
    {i \in [startTime : ProbeInstants, endTime : ProbeInstants] : i.endTime > i.startTime}

ProbeTechs == TechIds \cup {"c1"}

ProbeCreateBodies ==
    {[technicianId |-> t] @@ i : t \in ProbeTechs, i \in ProbeIntervals}
    \cup {[technicianId |-> t, estimatedDuration |-> 30] @@ i : t \in ProbeTechs, i \in Intervals}

ProbeActors == {"admin", "c1", "t1"}

----------------------------------------------------------------------------
(* Properties of the scheduling *)

\* C1: for every technician, no two stored appointments that are neither
\* canceled nor completed have overlapping intervals
C1_NoDoubleBooking ==
    \A i \in Ids(appts), j \in Ids(appts) :
        (/\ i # j
         /\ appts[i].technician = appts[j].technician
         /\ Active(appts[i])
         /\ Active(appts[j]))
        => ~ Overlaps(appts[i], appts[j])

\* C2: with create and update requests interleaved at their awaits, of two
\* requests for one technician with overlapping intervals at most one is
\* committed: no technician ever holds two appointments, neither canceled nor
\* completed, whose intervals overlap
C2_RaceClosed ==
    \A i \in Ids(appts) : \A j \in Ids(appts) \ {i} :
        \/ appts[i].technician # appts[j].technician
        \/ appts[i].status \in {"canceled", "completed"}
        \/ appts[j].status \in {"canceled", "completed"}
        \/ appts[i].endTime <= appts[j].startTime
        \/ appts[j].endTime <= appts[i].startTime

\* C3: for a bookable technician the conflict check fails with a conflict
\* exactly when a stored appointment of the technician, neither canceled nor
\* completed and other than the excluded one, starts before the candidate's
\* end and ends after the candidate's start, and succeeds otherwise; the
\* query's overlap test gives the same answer with the two intervals swapped
C3_ConflictExactlyOnOverlap ==
    /\ \A t \in {u \in TechIds : Bookable(u)}, c \in ProbeIntervals, x \in {NoId} \cup Ids(appts) :
          LET clash == \E i \in Ids(appts) :
                          /\ appts[i].technician = t
                          /\ appts[i].status # "canceled"
                          /\ appts[i].status # "completed"
                          /\ i # x
                          /\ appts[i].startTime < c.endTime
                          /\ appts[i].endTime > c.startTime
          IN  checkTechnicianAvailability(appts, techs, t, c.startTime, c.endTime, x)
              = IF clash THEN "conflict" ELSE "ok"
    /\ \A i \in Ids(appts), c \in ProbeIntervals :
          ConflictQueryMatches(appts[i], i, appts[i].technician, c.startTime, c.endTime, NoId)
          = ConflictQueryMatches(c @@ appts[i], i, appts[i].technician,
                                 appts[i].startTime, appts[i].endTime, NoId)

C3_Witness ==
    \E i \in Ids(appts) :
        LET a == appts[i] IN
        /\ Active(a)
        /\ Bookable(a.technician)
        /\ checkTechnicianAvailability(appts, techs, a.technician, a.startTime, a.endTime, NoId)
           = "conflict"
        /\ checkTechnicianAvailability(appts, techs, a.technician, a.endTime, a.endTime + MinuteMs, NoId)
           = "ok"

\* the request passes the schema of the route and the validators of the
\* model: it starts no earlier than now, and its duration, supplied or
\* taken from the interval, is between 15 and 480 minutes
Storable(body) ==
    /\ body.startTime >= now
    /\ body.endTime > body.startTime
    /\ \/ Has(body, "estimatedDuration")
       \/ /\ body.endTime - body.startTime >= MinEstimatedDuration * MinuteMs
          /\ body.endTime - body.startTime <= MaxEstimatedDuration * MinuteMs

\* C4: a create for a bookable technician whose interval touches an active
\* appointment of the technician at an endpoint, every active appointment of
\* the technician ending by its start or starting at or after its end, is
\* never rejected with a conflict, and when the request is otherwise valid it
\* is accepted: the new appointment is stored as scheduled and the stored
\* ones stay as they are
C4_TouchingEndpointsAccepted ==
    \A actor \in {"c1", "admin"}, body \in ProbeCreateBodies :
        LET r == PostAppointment(appts, techs, now, actor, body)
            mine == {i \in Ids(appts) : appts[i].technician = body.technicianId /\ Active(appts[i])}
        IN  (/\ Bookable(body.technicianId)
             /\ \E i \in mine : \/ appts[i].endTime = body.startTime
                                \/ appts[i].startTime = body.endTime
             /\ \A i \in mine : \/ appts[i].endTime <= body.startTime
                                \/ appts[i].startTime >= body.endTime)
            => /\ r.result # "conflict"
               /\ Storable(body) =>
                     /\ r.result = "created"
                     /\ Len(r.store) = Len(appts) + 1
                     /\ SubSeq(r.store, 1, Len(appts)) = appts
                     /\ r.store[Len(r.store)].status = "scheduled"
                     /\ r.store[Len(r.store)].technician = body.technicianId
                     /\ r.store[Len(r.store)].startTime = body.startTime
                     /\ r.store[Len(r.store)].endTime = body.endTime

C4_Witness ==
    \E i \in Ids(appts), j \in Ids(appts) :
        /\ i < j
        /\ appts[i].technician = appts[j].technician
        /\ appts[i].status = "scheduled"
        /\ appts[j].status = "scheduled"
        /\ \/ appts[i].endTime = appts[j].startTime
           \/ appts[j].endTime = appts[i].startTime

\* the bodies that set the times of a to the values they have
SameTimeBodies(a) ==
    {[startTime |-> a.startTime],
     [endTime |-> a.endTime],
     [startTime |-> a.startTime, endTime |-> a.endTime]}

\* C5: an update that sets the times of an active appointment to the values
\* they have is rejected with a conflict only if another appointment of the
\* technician, neither canceled nor completed, overlaps it
C5_NoSelfConflict ==
    \A actor \in UserIds, i \in Ids(appts) :
        \A body \in SameTimeBodies(appts[i]) :
            LET r == PutAppointment(appts, techs, now, actor, i, body)
            IN  (Active(appts[i]) /\ r.result = "conflict")
                => \E j \in Ids(appts) :
                      /\ j # i
                      /\ appts[j].technician = appts[i].technician
                      /\ Active(appts[j])
                      /\ Overlaps(appts[j], appts[i])

C5_Witness ==
    \E i \in Ids(appts) :
        /\ Active(appts[i])
        /\ \A body \in SameTimeBodies(appts[i]) :
              PutAppointment(appts, techs, now, appts[i].client, i, body).result = "updated"

\* the updates that carry a time, alone or with a status
ProbeTimedUpdateBodies ==
    {[startTime |-> s] : s \in ProbeInstants}
    \cup {[endTime |-> e] : e \in ProbeInstants}
    \cup Intervals
    \cup {[status |-> st] @@ c : st \in {"scheduled", "completed"}, c \in Intervals}

\* C6: when the technician does not exist, is inactive or is not flagged
\* available, every create, and every update that carries startTime or
\* endTime, fails and leaves the appointments as they are
C6_UnbookableTechnicianRejects ==
    /\ \A actor \in ProbeActors, body \in ProbeCreateBodies :
          LET r == PostAppointment(appts, techs, now, actor, body)
          IN  ~ Bookable(body.technicianId)
              => r.result \notin {"created", "updated"} /\ r.store = appts
    /\ \A actor \in ProbeActors, i \in Ids(appts), body \in ProbeTimedUpdateBodies :
          LET r == PutAppointment(appts, techs, now, actor, i, body)
          IN  ~ Bookable(appts[i].technician)
              => r.result \notin {"created", "updated"} /\ r.store = appts

C6_Witness ==
    \E i \in Ids(appts) :
        LET a == appts[i] IN
        /\ a.status = "scheduled"
        /\ ~ Bookable(a.technician)
        /\ PutAppointment(appts, techs, now, a.client, i, [endTime |-> a.endTime]).result
           \in {"technicianNotFound", "technicianUnavailable"}
        /\ PostAppointment(appts, techs, now, a.client,
                           [technicianId |-> a.technician, startTime |-> a.endTime,
                            endTime |-> a.endTime + 30 * MinuteMs]).result
           \in {"technicianNotFound", "technicianUnavailable"}

----------------------------------------------------------------------------
(* Properties of the lifecycle *)

NonAdmins == UserIds \ AdminIds

ProbeUpdateBodies ==
    {[status |-> st] : st \in Statuses}
    \cup {[notes |-> "n"], [notes |-> ""], [estimatedDuration |-> 60],
          [cancellationReason |-> "r"], [status |-> "completed", actualDuration |-> 45]}
    \cup ProbeTimedUpdateBodies

ProbeCancelBodies == {<<>>, [cancellationReason |-> ""], [cancellationReason |-> "r"]}

\* the responses of the three routes that change an appointment, to a
\* request of actor on appointment i
Mutations(actor, i) ==
    {PutAppointment(appts, techs, now, actor, i, body) : body \in ProbeUpdateBodies}
    \cup {PatchCancel(appts, now, actor, i, body) : body \in ProbeCancelBodies}
    \cup {DeleteAppointment(appts, now, actor, i)}

StatusTransitions ==
    {<<"scheduled", "in-progress">>, <<"in-progress", "completed">>,
     <<"scheduled", "canceled">>, <<"scheduled", "no-show">>}

\* C7: an update, cancel or delete by a non-admin changes the status of an
\* appointment only from scheduled to in-progress, from in-progress to
\* completed, from scheduled to canceled or from scheduled to no-show
C7_StatusStateMachine ==
    \A actor \in NonAdmins, i \in Ids(appts) :
        \A r \in Mutations(actor, i) :
            \/ r.store[i].status = appts[i].status
            \/ <<appts[i].status, r.store[i].status>> \in StatusTransitions

C9_CancellationWindow ==
    \A i \in Ids(appts) :
        LET inTime == now <= appts[i].startTime - 24 * 60 * 60 * 1000
            Cancels(actor) ==
                {PatchCancel(appts, now, actor, i, body) : body \in ProbeCancelBodies}
                \cup {DeleteAppointment(appts, now, actor, i)}
        IN  /\ \A actor \in NonAdmins : \A r \in Cancels(actor) :
                  /\ r.result = "canceled" => inTime
                  /\ r.result # "canceled" => r.store = appts
                  /\ (/\ inTime
                      /\ appts[i].status # "canceled"
                      /\ actor \in {appts[i].client, appts[i].technician})
                     => /\ r.result = "canceled"
                        /\ r.store[i].status = "canceled"
            /\ \A r \in Cancels("admin") :
                  appts[i].status # "canceled"
                  => /\ r.result = "canceled"
                     /\ r.store[i].status = "canceled"

C9_Witness ==
    \E i \in Ids(appts) :
        /\ appts[i].status = "scheduled"
        /\ now > appts[i].startTime - 24 * 60 * 60 * 1000
        /\ now < appts[i].startTime
        /\ PatchCancel(appts, now, appts[i].client, i, <<>>).result = "windowExpired"
        /\ DeleteAppointment(appts, now, appts[i].client, i).result = "windowExpired"
        /\ PatchCancel(appts, now, "admin", i, <<>>).result = "canceled"

\* C10: a cancel or delete of an appointment that is canceled is rejected for
\* every caller, the administrator included, and leaves the store as it is
C10_AlreadyCanceledRejected ==
    \A actor \in UserIds, i \in Ids(appts) :
        appts[i].status = "canceled" =>
            /\ \A body \in ProbeCancelBodies :
                  LET r == PatchCancel(appts, now, actor, i, body)
                  IN  r.result \in {"alreadyCanceled", "accessDenied"} /\ r.store = appts
            /\ LET r == DeleteAppointment(appts, now, actor, i)
               IN  r.result \in {"alreadyCanceled", "accessDenied"} /\ r.store = appts

C10_Witness ==
    \E i \in Ids(appts) :
        /\ appts[i].status = "canceled"
        /\ Has(appts[i], "cancellationReason")
        /\ PatchCancel(appts, now, "admin", i, [cancellationReason |-> "r"]).result
           = "alreadyCanceled"
        /\ DeleteAppointment(appts, now, appts[i].client, i).result = "alreadyCanceled"

\* C11: after a successful cancel or delete by an actor, the stored
\* appointment has status canceled, the reason of the request or, when the
\* request gives none, one placeholder, canceledAt equal to the time of the
\* call and canceledBy equal to the actor
C11_CancelRecordsFields ==
    \A actor \in UserIds, i \in Ids(appts) :
        LET Recorded(r, reason) ==
                r.result = "canceled" =>
                    /\ r.store[i].status = "canceled"
                    /\ r.store[i].cancellationReason = reason
                    /\ Has(r.store[i], "canceledAt")
                    /\ r.store[i].canceledAt = now
                    /\ Has(r.store[i], "canceledBy")
                    /\ r.store[i].canceledBy = actor
        IN  /\ \A body \in ProbeCancelBodies :
                  Recorded(PatchCancel(appts, now, actor, i, body),
                           IF Has(body, "cancellationReason") /\ body.cancellationReason # ""
                           THEN body.cancellationReason
                           ELSE "No reason provided")
            /\ Recorded(DeleteAppointment(appts, now, actor, i), "No reason provided")

\* C12: every stored appointment ends after it starts, whatever creates and
\* updates were served, those that carry only startTime or only endTime
\* included
C12_EndAfterStart ==
    \A i \in Ids(appts) : appts[i].endTime > appts[i].startTime

\* an update of the start time alone reaches the save with the interval
\* inverted, and an update of the end time alone is stored
C12_Witness ==
    \E i \in Ids(appts) :
        /\ appts[i].startTime = A0
        /\ appts[i].endTime = A1
        /\ PutAppointment(appts, techs, now, appts[i].client, i, [startTime |-> A2]).result
           = "saveError"
        /\ PutAppointment(appts, techs, now, appts[i].client, i, [endTime |-> A2]).result
           = "updated"

\* C13: a create by a customer for a bookable technician, on an interval
\* that ends after it starts and overlaps none of the technician's active
\* appointments, succeeds and adds exactly one appointment, scheduled, with
\* the requested technician and interval and the caller as client, and
\* leaves every other appointment as it was
C13_CreateSucceeds ==
    \A actor \in CustomerIds, body \in ProbeCreateBodies :
        LET r == PostAppointment(appts, techs, now, actor, body)
            free == \A j \in Ids(appts) :
                        (appts[j].technician = body.technicianId /\ Active(appts[j]))
                        => ~ Overlaps(appts[j], body)
            new == r.store[Len(appts) + 1]
        IN  (Bookable(body.technicianId) /\ body.endTime > body.startTime /\ free)
            => /\ r.result = "created"
               /\ Len(r.store) = Len(appts) + 1
               /\ new.status = "scheduled"
               /\ new.technician = body.technicianId
               /\ new.startTime = body.startTime
               /\ new.endTime = body.endTime
               /\ new.client = actor
               /\ \A j \in Ids(appts) : r.store[j] = appts[j]

----------------------------------------------------------------------------
(* Properties of the durations *)

\* d is the number of minutes nearest to ms milliseconds, a half going up
NearestMinutes(d, ms) ==
    /\ 2 * ms >= (2 * d - 1) * 60000
    /\ 2 * ms < (2 * d + 1) * 60000

\* 09:00 and 10:30 of the day of A0
NineOClock == A0 + 9 * 60 * 60000
HalfPastTen == A0 + 10 * 60 * 60000 + 30 * 60000

DurationCreateBodies ==
    {[technicianId |-> "t1"] @@ i : i \in ProbeIntervals}
    \cup {[technicianId |-> "t1", estimatedDuration |-> d] @@ i :
              d \in {15, 480}, i \in Intervals}
    \cup {[technicianId |-> "t2", startTime |-> NineOClock, endTime |-> HalfPastTen]}

\* C14: the appointment a create stores has the estimatedDuration of the
\* request when the request carries one, and otherwise the number of minutes
\* nearest to endTime - startTime; 09:00 to 10:30 gives 90
C14_EstimatedDuration ==
    /\ \A actor \in CustomerIds, body \in DurationCreateBodies :
          LET r == PostAppointment(appts, techs, now, actor, body)
              new == r.store[Len(appts) + 1]
          IN  r.result = "created" =>
                 /\ Has(new, "estimatedDuration")
                 /\ IF Has(body, "estimatedDuration")
                    THEN new.estimatedDuration = body.estimatedDuration
                    ELSE NearestMinutes(new.estimatedDuration, body.endTime - body.startTime)
    /\ LET r == PostAppointment(appts, techs, now, "c1",
                                [technicianId |-> "t2", startTime |-> NineOClock,
                                 endTime |-> HalfPastTen])
       IN  r.result = "created" /\ r.store[Len(appts) + 1].estimatedDuration = 90

\* an appointment of 20.5 minutes is stored with the derived 21 minutes, and
\* a create that carries 30 minutes for another interval stores 30
C14_Witness ==
    /\ Len(appts) = 1
    /\ appts[1].endTime - appts[1].startTime = 20 * 60000 + 30000
    /\ appts[1].estimatedDuration = 21
    /\ LET r == PostAppointment(appts, techs, now, "c1",
                                [technicianId |-> "t1", startTime |-> A0, endTime |-> A1,
                                 estimatedDuration |-> 30])
       IN  r.result = "created" /\ r.store[2].estimatedDuration = 30

CompletingBodies ==
    {[status |-> "completed"],
     [status |-> "completed", actualDuration |-> 0],
     [status |-> "completed", actualDuration |-> 45],
     [status |-> "completed", endTime |-> A2 + MinuteMs],
     [status |-> "completed", startTime |-> A0 + 1, actualDuration |-> 45]}

\* C15: an update that sets the status to completed stores the
\* actualDuration of the request when the request carries one, 0 included,
\* and otherwise the number of minutes nearest to endTime - startTime of
\* the appointment as the same update leaves it
C15_ActualDuration ==
    \A actor \in LifeActors, i \in Ids(appts), body \in CompletingBodies :
        LET r == PutAppointment(appts, techs, now, actor, i, body)
            doc == r.store[i]
        IN  r.result = "updated" =>
               /\ Has(doc, "actualDuration")
               /\ IF Has(body, "actualDuration")
                  THEN doc.actualDuration = body.actualDuration
                  ELSE NearestMinutes(doc.actualDuration, doc.endTime - doc.startTime)

----------------------------------------------------------------------------
(* Properties of the validation of updates *)

\* fields that are not in the allow-list of the update route
UnknownFields == {[technician |-> "t2"], [canceledBy |-> "c1"], [foo |-> "x"]}

KnownUpdateBodies ==
    {[notes |-> "n"], [endTime |-> A2], [status |-> "completed", actualDuration |-> 45]}

\* C16 as stated: an update that carries a field outside the allow-list is
\* served as the same update without that field
C16_UnknownFieldIgnored ==
    \A actor \in LifeActors, i \in Ids(appts) :
        \A body \in KnownUpdateBodies, unknown \in UnknownFields :
            PutAppointment(appts, techs, now, actor, i, unknown @@ body)
            = PutAppointment(appts, techs, now, actor, i, body)

\* C16: an update that carries a field outside the allow-list is rejected
\* by the validation, whoever sends it and whether or not the appointment
\* exists, and nothing of it is applied; the same update without that field
\* passes the validation
C16_UnknownFieldRejected ==
    \A actor \in LifeActors, i \in 1..(Len(appts) + 1) :
        \A body \in KnownUpdateBodies :
            /\ PutAppointment(appts, techs, now, actor, i, body).result # "validationError"
            /\ \A unknown \in UnknownFields :
                  LET r == PutAppointment(appts, techs, now, actor, i, unknown @@ body)
                  IN  r.result = "validationError" /\ r.store = appts

C16_Witness ==
    \E i \in Ids(appts) :
        /\ appts[i].status = "scheduled"
        /\ PutAppointment(appts, techs, now, appts[i].client, i, [notes |-> "n"]).result
           = "updated"
        /\ PutAppointment(appts, techs, now, appts[i].client, i,
                          [notes |-> "n", foo |-> "x"]).result = "validationError"

----------------------------------------------------------------------------
(* Properties of the availability *)

\* the instant at which the k-th working hour of the day of d starts
SlotInstant(d, k) == (d - (d % DayMs)) + (8 + k) * 60 * 60000

\* the appointment intersects the day of d
IntersectsDay(a, d) ==
    /\ a.startTime <= (d - (d % DayMs)) + DayMs - 1
    /\ a.endTime >= d - (d % DayMs)

\* C17: in the availability of technician t on the day of d, for every
\* active appointment of t that intersects the day, every working hour of
\* the day that starts within [startTime, endTime) of the appointment is in
\* bookedSlots and is not in availableSlots
C17_CoveredSlotsBooked ==
    \A t \in TechIds, d \in SlotDates :
        LET r == GetAvailability(appts, techs, t, d)
        IN  r.result = "ok" =>
               \A i \in Ids(appts), k \in 1..Len(workingHours) :
                   (/\ appts[i].technician = t
                    /\ Active(appts[i])
                    /\ IntersectsDay(appts[i], d)
                    /\ appts[i].startTime <= SlotInstant(d, k)
                    /\ SlotInstant(d, k) < appts[i].endTime)
                   => /\ workingHours[k] \in r.bookedSlots
                      /\ \A n \in 1..Len(r.availableSlots) :
                            r.availableSlots[n] # workingHours[k]

\* the appointment starts and ends on the day of d
WithinDay(a, d) ==
    /\ a.startTime >= d - (d % DayMs)
    /\ a.endTime <= (d - (d % DayMs)) + DayMs - 1

\* appointment i is the only active one of its technician on the day of d
OnlyOnDay(i, d) ==
    \A j \in Ids(appts) \ {i} :
        ~ (/\ appts[j].technician = appts[i].technician
           /\ Active(appts[j])
           /\ IntersectsDay(appts[j], d))

\* C18: for an active appointment within the asked day that ends in a
\* working hour, the slot of that hour is booked if the end has minutes past
\* the hour, and, the appointment being the only one of the day, is not
\* booked if the end has none; alone on its day, 09:00-11:30 books 09:00,
\* 10:00 and 11:00 and leaves 12:00 to 16:00, and 09:00-11:00 books 09:00
\* and 10:00
C18_SlotEdgeRule ==
    \A i \in Ids(appts), d \in SlotDates :
        LET a == appts[i]
            r == GetAvailability(appts, techs, a.technician, d)
            sinceMidnight == a.endTime - (d - (d % DayMs))
            endHour == sinceMidnight \div 3600000
            endMinutes == (sinceMidnight % 3600000) \div 60000
            nine == (d - (d % DayMs)) + 9 * 3600000
        IN  (r.result = "ok" /\ Active(a) /\ WithinDay(a, d)) =>
               /\ (endHour \in 9..16 /\ endMinutes > 0)
                  => workingHours[endHour - 8] \in r.bookedSlots
               /\ (endHour \in 9..16 /\ endMinutes = 0 /\ OnlyOnDay(i, d))
                  => workingHours[endHour - 8] \notin r.bookedSlots
               /\ (a.startTime = nine /\ a.endTime = nine + 150 * 60000 /\ OnlyOnDay(i, d))
                  => /\ r.bookedSlots = {"09:00", "10:00", "11:00"}
                     /\ r.availableSlots = <<"12:00", "13:00", "14:00", "15:00", "16:00">>
               /\ (a.startTime = nine /\ a.endTime = nine + 120 * 60000 /\ OnlyOnDay(i, d))
                  => r.bookedSlots = {"09:00", "10:00"}

\* one technician has 09:00-11:00 and the other 09:00-11:30 on the same day
C18_Witness ==
    \E i \in Ids(appts), j \in Ids(appts) :
        /\ appts[i].technician = "t1" /\ Active(appts[i])
        /\ appts[i].startTime = At(0, 9, 0) /\ appts[i].endTime = At(0, 11, 0)
        /\ appts[j].technician = "t2" /\ Active(appts[j])
        /\ appts[j].startTime = At(0, 9, 0) /\ appts[j].endTime = At(0, 11, 30)
        /\ GetAvailability(appts, techs, "t1", At(0, 0, 0)).bookedSlots = {"09:00", "10:00"}
        /\ GetAvailability(appts, techs, "t2", At(0, 0, 0)).bookedSlots
           = {"09:00", "10:00", "11:00"}

\* the place of a label among the working hours
Place(slot) == CHOOSE k \in 1..Len(workingHours) : workingHours[k] = slot

\* the two lists of slots of a result partition the working hours, and the
\* available ones come in the order of the working hours
SlotsPartition(r) ==
    LET labels == {workingHours[k] : k \in 1..Len(workingHours)}
        available == {r.availableSlots[n] : n \in 1..Len(r.availableSlots)}
    IN  /\ r.bookedSlots \subseteq labels
        /\ r.bookedSlots \cap available = {}
        /\ r.bookedSlots \cup available = labels
        /\ \A m \in 1..Len(r.availableSlots), n \in 1..Len(r.availableSlots) :
              m < n => Place(r.availableSlots[m]) < Place(r.availableSlots[n])

\* C19: in every availability result, the one last sent and the one of any
\* request served now, bookedSlots holds working hours only, bookedSlots and
\* availableSlots are disjoint and together make up the working hours, and
\* availableSlots keeps the order of the working hours
C19_AvailableIsComplement ==
    /\ \A k \in 1..Len(reqs) :
          (reqs[k].pc = "availability" /\ reqs[k].result = "ok") => SlotsPartition(reqs[k])
    /\ \A t \in TechIds, d \in SlotDates :
          LET r == GetAvailability(appts, techs, t, d)
          IN  r.result = "ok" => SlotsPartition(r)

\* a result was sent for a technician whose appointment of 15:00-17:30
\* reaches beyond the working hours
C19_Witness ==
    /\ reqs[1].pc = "availability"
    /\ reqs[1].result = "ok"
    /\ reqs[1].bookedSlots = {"15:00", "16:00"}
    /\ reqs[1].availableSlots = <<"09:00", "10:00", "11:00", "12:00", "13:00", "14:00">>
    /\ \E i \in Ids(appts) :
          /\ Active(appts[i])
          /\ appts[i].startTime = At(0, 15, 0)
          /\ appts[i].endTime = At(0, 17, 30)

----------------------------------------------------------------------------
(* Properties of the records *)

CancellationFields == {"status", "cancellationReason", "canceledAt", "canceledBy"}

\* the responses of the two cancel routes to actor, for appointment i
CancelResponses(actor, i) ==
    {PatchCancel(appts, now, actor, i, body) : body \in ProbeCancelBodies}
    \cup {DeleteAppointment(appts, now, actor, i)}

\* C20: no step removes an appointment: every id of the store is an id of
\* the store after the step; and a request to either cancel route, whoever
\* sends it, leaves every appointment in the store, changes none but the
\* one it names, and of that one changes nothing but the status and the
\* cancellation fields
C20_NeverRemoved ==
    /\ [][Ids(appts) \subseteq Ids(appts')]_vars
    /\ [](\A actor \in UserIds, i \in Ids(appts) :
            \A r \in CancelResponses(actor, i) :
                  /\ Ids(r.store) = Ids(appts)
                  /\ \A j \in Ids(appts) \ {i} : r.store[j] = appts[j]
                  /\ DOMAIN r.store[i] \ CancellationFields = DOMAIN appts[i] \ CancellationFields
                  /\ \A f \in DOMAIN appts[i] \ CancellationFields :
                        r.store[i][f] = appts[i][f])

\* an appointment canceled through the delete route is in the store
C20_Witness ==
    \E i \in Ids(appts) :
        /\ appts[i].status = "canceled"
        /\ Has(appts[i], "cancellationReason")
        /\ appts[i].cancellationReason = "Canceled by user"
        /\ appts[i].client = "c1"
        /\ appts[i].technician = "t1"

----------------------------------------------------------------------------
(* Properties of the reads *)

\* slot k advances by a read of the conflict check: the lookup of the
\* technician or the conflict query
ConflictCheckReads(k) ==
    /\ reqs[k].pc \in {"findTechnician", "findConflicts"}
    /\ reqs'[k] # reqs[k]

\* slot k receives the response of an availability query
AvailabilityReads(k) ==
    /\ reqs'[k].pc = "availability"
    /\ reqs'[k] # reqs[k]

\* C21: a step of the conflict check (the lookup of the technician, the
\* conflict query) and a step that serves an availability query leave the
\* appointments and the technicians as they are, whatever the outcome of
\* the read and whatever other requests are in flight
C21_ReadsChangeNothing ==
    [][(\E k \in 1..Len(reqs) : ConflictCheckReads(k) \/ AvailabilityReads(k))
       => (appts' = appts /\ techs' = techs)]_vars

\* with an appointment stored, a create has passed the lookup of the
\* technician and awaits a conflict query that will find a conflict, while
\* an availability query was answered with booked slots
C21_Witness ==
    /\ Len(appts) >= 1
    /\ reqs[1].pc = "findConflicts"
    /\ FindConflicts(appts, reqs[1].technician, reqs[1].startTime, reqs[1].endTime, NoId)
       # <<>>
    /\ reqs[2].pc = "availability"
    /\ reqs[2].result = "ok"
    /\ reqs[2].bookedSlots # {}

----------------------------------------------------------------------------
(* Properties of the cancellation *)

\* the cancellation fields of the appointment are set only if it is canceled
CancellationFieldsOnlyWhenCanceled(a) ==
    (Has(a, "cancellationReason") \/ Has(a, "canceledAt") \/ Has(a, "canceledBy"))
    => a.status = "canceled"

\* C22: in every reachable state, and in the store every update, cancel or
\* delete of a non-admin leaves, an appointment with a cancellationReason,
\* canceledAt or canceledBy has status canceled
C22_CancellationFieldsOnlyWhenCanceled ==
    /\ \A i \in Ids(appts) : CancellationFieldsOnlyWhenCanceled(appts[i])
    /\ \A actor \in NonAdmins, i \in Ids(appts) :
          \A r \in Mutations(actor, i) :
              \A j \in Ids(r.store) : CancellationFieldsOnlyWhenCanceled(r.store[j])

\* the fields a cancel is to leave alone
KeptFields ==
    {"client", "technician", "startTime", "endTime", "serviceType", "priority", "notes",
     "estimatedDuration", "actualDuration", "location"}

\* C23: a cancel or delete that succeeds changes, of the appointment it
\* names, no field other than status, cancellationReason, canceledAt and
\* canceledBy: client, technician, times, service type, priority, notes,
\* durations and location are present and valued as before; every other
\* appointment is as before
C23_CancelWritesFourFields ==
    \A actor \in RecActors, i \in Ids(appts) :
        \A r \in CancelResponses(actor, i) :
            r.result = "canceled" =>
               /\ \A f \in KeptFields :
                     /\ Has(r.store[i], f) <=> Has(appts[i], f)
                     /\ Has(appts[i], f) => r.store[i][f] = appts[i][f]
               /\ {f \in DOMAIN r.store[i] : ~ Has(appts[i], f) \/ r.store[i][f] # appts[i][f]}
                  \subseteq {"status", "cancellationReason", "canceledAt", "canceledBy"}
               /\ \A j \in Ids(appts) \ {i} : r.store[j] = appts[j]
               /\ Len(r.store) = Len(appts)

\* an annotated appointment was canceled with a reason next to another one
C23_Witness ==
    /\ Len(appts) = 2
    /\ \E i \in Ids(appts) :
          /\ appts[i].status = "canceled"
          /\ Has(appts[i], "notes")
          /\ Has(appts[i], "cancellationReason")
          /\ appts[i].cancellationReason = "r"
          /\ \E j \in Ids(appts) \ {i} :
                /\ appts[j].status = "scheduled"
                /\ Has(appts[j], "notes")
                /\ PatchCancel(appts, now, "c1", j, <<>>).result = "canceled"

----------------------------------------------------------------------------
(* Properties of the update of times *)

TimedSlotUpdateBodies ==
    {[startTime |-> At(0, 10, 0)],
     [endTime |-> At(0, 16, 0)],
     [startTime |-> At(0, 12, 0), endTime |-> At(0, 16, 0)],
     [startTime |-> At(0, 10, 0), notes |-> "n", status |-> "in-progress"],
     [endTime |-> At(1, 12, 0), notes |-> "n", priority |-> "high"],
     [startTime |-> At(0, 12, 0), notes |-> "n"]}

\* the interval the update asks for, a time it does not carry being the
\* stored one
EffectiveInterval(a, body) ==
    [startTime |-> IF Has(body, "startTime") THEN body.startTime ELSE a.startTime,
     endTime |-> IF Has(body, "endTime") THEN body.endTime ELSE a.endTime]

\* another active appointment of the technician of i overlaps the interval
OverlapsAnother(i, interval) ==
    \E j \in Ids(appts) \ {i} :
        /\ appts[j].technician = appts[i].technician
        /\ Active(appts[j])
        /\ Overlaps(appts[j], interval)

\* C24: an update that carries startTime, endTime or both, and whose
\* interval, completed from the stored appointment, overlaps another active
\* appointment of the same technician, is rejected and stores nothing: the
\* appointment keeps its times and the other fields the request carries
C24_ConflictingUpdateRejected ==
    \A actor \in ProbeActors, i \in Ids(appts), body \in TimedSlotUpdateBodies :
        LET r == PutAppointment(appts, techs, now, actor, i, body)
        IN  OverlapsAnother(i, EffectiveInterval(appts[i], body))
            => /\ r.result \in {"conflict", "accessDenied", "immutable"}
               /\ r.store = appts

\* of two appointments of a technician, one is refused a start that runs
\* into the other and granted, with its notes, a start that does not
C24_Witness ==
    \E i \in Ids(appts) :
        /\ appts[i].status = "scheduled"
        /\ OverlapsAnother(i, EffectiveInterval(appts[i], [startTime |-> At(0, 10, 0)]))
        /\ PutAppointment(appts, techs, now, "c1", i,
                          [startTime |-> At(0, 10, 0), notes |-> "n",
                           status |-> "in-progress"]).result = "conflict"
        /\ PutAppointment(appts, techs, now, "c1", i,
                          [startTime |-> At(0, 12, 0), notes |-> "n"]).result = "updated"

----------------------------------------------------------------------------
(* Properties of the selection of a day *)

\* instants at and next to the two ends of the day of A0 and of its
\* neighbours
BoundaryInstants ==
    {At(0, 0, 0) - 1, At(0, 0, 0), At(0, 0, 0) + 1, At(0, 12, 0),
     At(1, 0, 0) - 2, At(1, 0, 0) - 1, At(1, 0, 0), At(1, 0, 0) + 1}

BoundaryDocs ==
    {doc \in [technician : {"t1"}, status : {"scheduled", "canceled"},
              startTime : BoundaryInstants,
              endTime : BoundaryInstants \cup {At(2, 0, 0)}] :
        doc.endTime > doc.startTime}

\* C25: among the appointments of the technician that are neither canceled
\* nor completed and start before they end, the three clauses of the
\* availability query select exactly those with startTime <= dayEnd and
\* endTime >= dayStart, dayStart being 00:00:00.000 and dayEnd 23:59:59.999
\* of the day asked for; so for the stored appointments and for appointments
\* that start and end at and next to the ends of the day
C25_ThreeClausesSelectIntersecting ==
    \A d \in SlotDates :
        LET dayStart == d - (d % 86400000)
            dayEnd == dayStart + 86399999
            Agree(doc, t) ==
                (doc.technician = t /\ Active(doc) /\ doc.startTime < doc.endTime)
                => (DayQueryMatches(doc, t, d)
                    <=> (doc.startTime <= dayEnd /\ doc.endTime >= dayStart))
            Excluded(doc, t) ==
                (doc.technician # t \/ ~ Active(doc)) => ~ DayQueryMatches(doc, t, d)
        IN  /\ \A t \in TechIds, i \in Ids(appts) : Agree(appts[i], t) /\ Excluded(appts[i], t)
            /\ \A doc \in BoundaryDocs : Agree(doc, "t1") /\ Excluded(doc, "t1")

\* the technician has an appointment from the evening before the day to
\* the morning after it, which only the third clause selects
C25_Witness ==
    \E i \in Ids(appts) :
        /\ Active(appts[i])
        /\ appts[i].startTime = At(-1, 20, 0)
        /\ appts[i].endTime = At(1, 5, 0)
        /\ DayQueryMatches(appts[i], appts[i].technician, At(0, 0, 0))
        /\ appts[i].startTime < At(0, 0, 0)
        /\ appts[i].endTime > At(1, 0, 0) - 1
        /\ ~ DayQueryMatches(appts[i], appts[i].technician, At(2, 0, 0))

\* C26: no cancel, delete or update of a non-admin brings an appointment
\* that is not canceled to the status canceled later than 24 hours before
\* its start
C26_PolicyNotBypassed ==
    \A actor \in NonAdmins, i \in Ids(appts) :
        \A r \in Mutations(actor, i) :
            (appts[i].status # "canceled" /\ r.store[i].status = "canceled")
            => now <= appts[i].startTime - 24 * 60 * 60 * 1000

----------------------------------------------------------------------------
(* Properties of the interleaved cancels and updates *)

\* slot k holds the report of a cancel that succeeded
ReportsCanceled(k) == reqs[k].pc = "responded" /\ reqs[k].result = "canceled"

\* C27: of the cancels of one appointment, at most one reports success, and
\* the stored cancellationReason is the one of the request that did
C27_OneCancelSucceeds ==
    /\ \A k1 \in 1..Len(reqs), k2 \in 1..Len(reqs) :
          (k1 # k2 /\ ReportsCanceled(k1) /\ ReportsCanceled(k2))
          => reqs[k1].id # reqs[k2].id
    /\ \A k \in 1..Len(reqs) :
          ReportsCanceled(k)
          => appts[reqs[k].id].cancellationReason = reqs[k].cancellationReason

\* C28: the save of a non-admin update leaves an appointment unchanged that
\* is completed or canceled at the moment of the save, a cancel having
\* committed since the update loaded it
C28_UpdateSparesCanceled ==
    [][\A k \in 1..Len(reqs) :
         (/\ reqs[k].pc = "save"
          /\ reqs[k].kind = "update"
          /\ reqs'[k] = Idle
          /\ Role(reqs[k].actor) # "admin"
          /\ isLocked(appts[reqs[k].id], reqs[k].actor))
         => appts' = appts]_vars

----------------------------------------------------------------------------
(* Properties of the rejections *)

RejCreateBodies ==
    ProbeCreateBodies
    \cup {[technicianId |-> "t1", startTime |-> A1, endTime |-> A0],
          [technicianId |-> "t1", startTime |-> A0],
          [technicianId |-> "t1", startTime |-> A0, endTime |-> A1, estimatedDuration |-> 1],
          [technicianId |-> "t1", startTime |-> A0, endTime |-> A1, color |-> "red"]}

RejUpdateProbes == ProbeUpdateBodies \cup {[color |-> "red"], [estimatedDuration |-> 1]}

RejCancelBodies == ProbeCancelBodies \cup {[color |-> "red"]}

\* the responses to the creates, updates and cancels of every user on every
\* id, the first unused one included
Requests ==
    {PostAppointment(appts, techs, now, actor, body) :
        actor \in UserIds, body \in RejCreateBodies}
    \cup {PutAppointment(appts, techs, now, actor, i, body) :
             actor \in UserIds, i \in 1..(Len(appts) + 1), body \in RejUpdateProbes}
    \cup {PatchCancel(appts, now, actor, i, body) :
             actor \in UserIds, i \in 1..(Len(appts) + 1), body \in RejCancelBodies}
    \cup {DeleteAppointment(appts, now, actor, i) :
             actor \in UserIds, i \in 1..(Len(appts) + 1)}

Rejected == {r \in Requests : r.result \notin {"created", "updated", "canceled"}}

\* C29: every create, update or cancel that is rejected, for whatever
\* reason, leaves the stored appointments exactly as they were
C29_RejectionChangesNothing == \A r \in Rejected : r.store = appts

\* a canceled appointment of a technician who is not available any more:
\* requests are refused for eight different reasons
C29_Witness ==
    /\ \E i \in Ids(appts) : appts[i].status = "canceled"
    /\ {"validationError", "forbidden", "notFound", "accessDenied", "immutable",
        "technicianNotFound", "technicianUnavailable", "alreadyCanceled"}
          \subseteq {r.result : r \in Rejected}

----------------------------------------------------------------------------
(* Properties of the access control *)

\* C30: a user who is neither admin nor the client nor the technician of an
\* appointment is answered access denied when reading, updating or
\* canceling it, whatever the state and the well-formed body, and the store
\* stays as it is; a response to a read that carries an appointment went to
\* its client, its technician or an admin; and a create leaves the
\* appointments of the store as they are
C30_StrangersDenied ==
    /\ \A actor \in UserIds, i \in Ids(appts) :
          ~ (Role(actor) = "admin" \/ appts[i].client = actor \/ appts[i].technician = actor)
          => /\ GetAppointment(appts, actor, i).result = "accessDenied"
             /\ \A r \in Mutations(actor, i) :
                   r.result = "accessDenied" /\ r.store = appts
    /\ \A k \in 1..Len(reqs) :
          (reqs[k].pc = "read" /\ reqs[k].result = "ok")
          => \/ Role(reqs[k].actor) = "admin"
             \/ reqs[k].appointment.client = reqs[k].actor
             \/ reqs[k].appointment.technician = reqs[k].actor
    /\ \A actor \in UserIds, body \in LifeCreateBodies :
          SubSeq(PostAppointment(appts, techs, now, actor, body).store, 1, Len(appts)) = appts

\* the customer c2 asked for an appointment of c1 that is canceled by now
\* and was refused
C30_Witness ==
    /\ reqs[1].pc = "read"
    /\ reqs[1].actor = "c2"
    /\ reqs[1].result = "accessDenied"
    /\ appts[reqs[1].id].client = "c1"
    /\ appts[reqs[1].id].status = "canceled"

====
